---- MODULE Spec2Model ----
(***************************************************************************)
(* License-plate recognition pipeline of model_trainer.py.                 *)
(*                                                                         *)
(* The pipeline is process_image (lines 20-83) and the Streamlit script    *)
(* around it (lines 86-115).  The imaging library and the OCR engine are   *)
(* external: what they compute on a given image is an attribute of that    *)
(* image (an uploaded file carries the contours the library finds in it,   *)
(* whether the polygon fill leaves foreground pixels in the mask, and the  *)
(* entries the OCR engine reads from its crop), so the same file always    *)
(* gets the same answers.  An image that process_image has annotated is a  *)
(* different image: the library's and the engine's answers on it are       *)
(* chosen afresh.                                                          *)
(*                                                                         *)
(* Points are <<x, y>> (column, row) as in OpenCV; mask pixels are         *)
(* <<row, col>> as numpy indexes them.                                     *)
(***************************************************************************)
EXTENDS Integers, Sequences, FiniteSets, TLC

(* ------------------------------ bounds -------------------------------- *)
ImgH == 4
ImgW == 5
MaxContours == 11
MaxOcr == 2

(* ------------------------- program constants -------------------------- *)
TopK == 10
QuadVertices == 4
TextOffset == 60

\* A Python name that may hold None: the empty tuple is None, <<v>> holds v.
\* A polygon has at least three vertices, so the empty tuple is also the
\* None (or not yet bound) polygon.
None == <<>>

Some(v) == <<v>>

(* --------------------------- sequence helpers ------------------------- *)
Min2(a, b) == IF a <= b THEN a ELSE b

SetMin(S) == CHOOSE m \in S : \A k \in S : m <= k

SetMax(S) == CHOOSE m \in S : \A k \in S : m >= k

SeqsUpTo(S, n) == UNION {[1..k -> S] : k \in 0..n}

(* ------------------------------ polygons ------------------------------ *)
\* Approximated polygons the library can hand back.  The quadrilaterals
\* differ in orientation and vertex order; Tri and Penta are the shapes
\* that do not qualify.
PlateQuad == <<<<1, 1>>, <<3, 1>>, <<3, 2>>, <<1, 2>>>>
Diamond == <<<<2, 0>>, <<4, 1>>, <<2, 3>>, <<0, 1>>>>
FullQuad == <<<<0, 0>>, <<0, ImgH - 1>>, <<ImgW - 1, ImgH - 1>>, <<ImgW - 1, 0>>>>
Bowtie == <<<<0, 2>>, <<2, 3>>, <<0, 3>>, <<2, 2>>>>
Tri == <<<<0, 0>>, <<3, 0>>, <<1, 3>>>>
Penta == <<<<1, 0>>, <<3, 0>>, <<4, 2>>, <<2, 3>>, <<0, 2>>>>
Quads == <<PlateQuad, Diamond, FullQuad, Bowtie>>

(* ------------------- what the collaborators return -------------------- *)
\* A contour as findContours returns it, with the two things the pipeline
\* asks the library about it: cv2.contourArea and cv2.approxPolyDP(.,10,True).
\* Areas rise along the raw list ("asc") or rise in tied pairs ("pairs").
Contour(i, order, Q) ==
    [area |-> IF order = "asc" THEN i ELSE (i + 1) \div 2,
     approx |-> IF i \in Q THEN Quads[(i % Len(Quads)) + 1]
                ELSE IF i % 2 = 0 THEN Tri ELSE Penta]

\* Where the quadrilaterals sit in the raw list: nowhere, at one place, or
\* at two neighbouring places.
QuadPlaces(n) ==
    {{}} \cup {{i} : i \in 1..n} \cup {{i, i + 1} : i \in 1..(n - 1)}

\* The raw contour lists findContours can return for a freshly decoded
\* file: any length up to MaxContours.
ContourLists ==
    UNION {{[i \in 1..n |-> Contour(i, o, Q)] : o \in {"asc", "pairs"}, Q \in QuadPlaces(n)} :
              n \in 0..MaxContours}

\* What the library can find in an image that already carries an annotation.
AnnotatedLists ==
    {<<>>,
     <<[area |-> 1, approx |-> PlateQuad]>>,
     <<[area |-> 2, approx |-> Penta], [area |-> 1, approx |-> Diamond]>>}

\* readtext entries are (boundingBox, text, confidence); confidence in percent.
Entries == {<<"box", "ABC123", 90>>, <<"box", "", 40>>}

OcrResults == SeqsUpTo(Entries, MaxOcr)

\* What the engine can read from a crop of an annotated image.
AnnotatedReads == {<<>>} \cup {<<e>> : e \in Entries}

\* An uploaded file, with what the collaborators answer on its pixels.  A
\* file whose polygon fill leaves the mask empty never reaches the engine.
Files ==
    {[contours |-> cs, maskDrawn |-> TRUE, reads |-> r] :
        cs \in ContourLists, r \in OcrResults}
    \cup {[contours |-> cs, maskDrawn |-> FALSE, reads |-> <<>>] : cs \in ContourLists}

(* ----------------------------- plate locator -------------------------- *)
ContourArea(c) == c.area

ApproxPolyDP(c) == c.approx

\* cv2.findContours on the edge map of the image.
FindContours(img) ==
    IF img.marks = <<>> THEN {img.base.contours} ELSE AnnotatedLists

\* Faulty variant: the contours left in the order findContours gave them.
Unsorted(cs) == cs

\* sorted(contours, key=cv2.contourArea, reverse=True): stable, so contours
\* of equal area keep their raw order.
RECURSIVE InsertByArea(_, _)
InsertByArea(c, sorted) ==
    IF sorted = <<>> THEN <<c>>
    ELSE IF ContourArea(Head(sorted)) >= ContourArea(c)
         THEN <<Head(sorted)>> \o InsertByArea(c, Tail(sorted))
         ELSE <<c>> \o sorted

RECURSIVE InsertionSort(_)
InsertionSort(cs) ==
    IF cs = <<>> THEN <<>>
    ELSE InsertByArea(cs[Len(cs)], InsertionSort(SubSeq(cs, 1, Len(cs) - 1)))

SortedByArea(cs) == InsertionSort(cs)

\* Faulty variant: the [:10] left out.
TopAll(cs) == cs

\* [:10]
Top(cs) == SubSeq(cs, 1, Min2(TopK, Len(cs)))

\* Faulty variant: the loop runs on after a match.
NoBreak(acc) == FALSE

\* The break of line 51: taken in the iteration that sets location.
Break(acc) == acc.location # None

\* Lines 46-51.  acc holds the two names the loop binds: location and the
\* loop's own approx, which outlives the loop.
RECURSIVE Scan(_, _, _)
Scan(cs, i, acc) ==
    IF i > Len(cs) \/ Break(acc) THEN acc
    ELSE LET a == ApproxPolyDP(cs[i])
         IN Scan(cs, i + 1,
                 [location |-> IF Len(a) = QuadVertices THEN a ELSE acc.location,
                  approx |-> a])

Locator(raw) ==
    Scan(Top(SortedByArea(raw)), 1, [location |-> None, approx |-> None])

(* -------------------------------- cropper ----------------------------- *)
Edges(poly) == {<<poly[i], poly[(i % Len(poly)) + 1]>> : i \in 1..Len(poly)}

Cross(p, a, b) == (b[1] - a[1]) * (p[2] - a[2]) - (p[1] - a[1]) * (b[2] - a[2])

OnSegment(p, a, b) ==
    /\ Cross(p, a, b) = 0
    /\ Min2(a[1], b[1]) <= p[1] /\ p[1] <= a[1] + b[1] - Min2(a[1], b[1])
    /\ Min2(a[2], b[2]) <= p[2] /\ p[2] <= a[2] + b[2] - Min2(a[2], b[2])

\* The edge a-b crosses the horizontal ray leaving p to the right.
RayCrosses(p, a, b) ==
    /\ (a[2] > p[2]) # (b[2] > p[2])
    /\ IF b[2] > a[2] THEN Cross(p, a, b) > 0 ELSE Cross(p, a, b) < 0

\* The pixels a filled polygon covers: its outline and its interior.
Fill(poly) ==
    {px \in (0..(ImgH - 1)) \X (0..(ImgW - 1)) :
        LET p == <<px[2], px[1]>>
        IN \/ \E e \in Edges(poly) : OnSegment(p, e[1], e[2])
           \/ Cardinality({e \in Edges(poly) : RayCrosses(p, e[1], e[2])}) % 2 = 1}

\* Lines 58-59: mask = zeros(gray.shape); drawContours(mask, [location], 0,
\* 255, -1).  The result is the set of pixels equal to 255.
DrawContours(img, poly) == IF img.base.maskDrawn THEN Fill(poly) ELSE {}

\* cv2.cvtColor(img_array, COLOR_BGR2GRAY): a new single-channel array over
\* the whole image, holding the pixels the buffer has at that moment.
CvtGray(img) ==
    [src |-> img, r0 |-> 0, r1 |-> ImgH - 1, c0 |-> 0, c1 |-> ImgW - 1]

\* numpy a[ra:rb, ca:cb] on a view: rows ra..rb-1 and columns ca..cb-1.
Slice(g, ra, rb, ca, cb) ==
    [src |-> g.src, r0 |-> g.r0 + ra, r1 |-> g.r0 + rb - 1,
     c0 |-> g.c0 + ca, c1 |-> g.c0 + cb - 1]

\* Faulty variant: the slice ends written without the + 1.
CropExclusive(g, m) ==
    LET x == {px[1] : px \in m}
        y == {px[2] : px \in m}
    IN Slice(g, SetMin(x), SetMax(x), SetMin(y), SetMax(y))

\* Lines 62-65.  np.where gives (rows, columns); the code calls them x, y.
Crop(g, m) ==
    LET x == {px[1] : px \in m}
        y == {px[2] : px \in m}
        x1 == SetMin(x)
        y1 == SetMin(y)
        x2 == SetMax(x)
        y2 == SetMax(y)
    IN Slice(g, x1, x2 + 1, y1, y2 + 1)

(* ---------------------------- text recognizer ------------------------- *)
\* reader.readtext(cropped_image).
Readtext(crop) ==
    IF crop.src.marks = <<>> THEN {crop.src.base.reads} ELSE AnnotatedReads

\* Faulty variant: the last entry read instead of the first.
LastText(result) == result[Len(result)][Len(result[Len(result)]) - 1]

\* result[0][-2]
FirstText(result) == result[1][Len(result[1]) - 1]

\* `not result`
IsEmpty(result) == result = <<>>

(* -------------------------------- annotator --------------------------- *)
\* org=(approx[0][0][0], approx[1][0][1] + 60)
TextOrg(poly) == <<poly[1][1], poly[2][2] + TextOffset>>

\* tuple(approx[0][0]), tuple(approx[2][0])
RectCorners(poly) == <<poly[1], poly[3]>>

PutText(img, t, org) ==
    [img EXCEPT !.marks = @ \o <<[kind |-> "text", text |-> t, at |-> <<org>>]>>]

Rectangle(img, corners) ==
    [img EXCEPT !.marks = @ \o <<[kind |-> "rect", text |-> "", at |-> corners]>>]

(* ------------------------------- outcomes ----------------------------- *)
\* Faulty variant: an empty text returned in place of None.
PlateNotFoundWithText == <<None, Some(""), None>>

\* return None, None, None   (line 55)
PlateNotFound == <<None, None, None>>

\* Faulty variant: an empty text returned in place of None.
TextNotFoundWithText == <<None, Some(""), None>>

\* return None, None, None   (line 72)
TextNotFound == <<None, None, None>>

\* Faulty variant: the test written as `detected_text is not None`.
IsNotNone(t) == t # None

\* `if detected_text:`
Truthy(t) == t # None /\ t[1] # ""

(* --------------------------------- state ------------------------------ *)
VARIABLES
    uploaded_file,  \* the file in the uploader widget, or None
    img_array,      \* the pixels of the buffer handed to process_image
    how,            \* who made the last call: "none", "script" or "direct"
    pc,             \* where the current invocation stands
    reader,         \* TRUE once load_reader has built the cached Reader
    input,          \* the buffer's pixels when the invocation began
    gray, contours, location, approx, mask, cropped_image, result, text,
    ocrCalls,       \* readtext calls made by the current invocation
    exit,           \* how the invocation ended
    ret,            \* the returned triple, as it was at the return
    shown,          \* what the script displayed for its last run
    prev            \* the invocation before this one on the same upload

locals == <<gray, contours, location, approx, mask, cropped_image, result, text>>

vars == <<uploaded_file, img_array, how, pc, reader, input, gray, contours,
          location, approx, mask, cropped_image, result, text, ocrCalls,
          exit, ret, shown, prev>>

Nothing == [kind |-> "nothing", text |-> None, image |-> None, crop |-> None]

Init ==
    /\ uploaded_file = None
    /\ img_array = None
    /\ how = "none"
    /\ pc = "idle"
    /\ reader = FALSE
    /\ input = None
    /\ gray = None /\ contours = <<>> /\ location = None /\ approx = None
    /\ mask = {} /\ cropped_image = None /\ result = <<>> /\ text = None
    /\ ocrCalls = 0
    /\ exit = "none"
    /\ ret = <<>>
    /\ shown = Nothing
    /\ prev = None

\* Faulty variant: the script keeps the array of its previous run when there is one.
DecodeReusing(file) ==
    IF img_array # None THEN img_array[1] ELSE [base |-> file, marks |-> <<>>]

\* Lines 90-93: Image.open, np.array, cvtColor produce a new array holding
\* the file's pixels; nothing drawn on it yet.
Decode(file) == [base |-> file, marks |-> <<>>]

\* Entry of process_image on buffer img (lines 20-26): fresh locals, and
\* load_reader, which builds the Reader only on the first call.
Enter(img, caller) ==
    /\ img_array' = Some(img)
    /\ input' = Some(img)
    /\ how' = caller
    /\ reader' = TRUE
    /\ gray' = None /\ contours' = <<>> /\ location' = None /\ approx' = None
    /\ mask' = {} /\ cropped_image' = None /\ result' = <<>> /\ text' = None
    /\ ocrCalls' = 0
    /\ exit' = "none"
    /\ ret' = <<>>
    /\ pc' = "locate"

Summary == [input |-> input, how |-> how, exit |-> exit, ret |-> ret]

\* Lines 86-100: the user puts a file in the uploader; the script decodes
\* it into a new buffer and calls process_image.
Upload(file) ==
    /\ pc = "idle"
    /\ uploaded_file = None
    /\ uploaded_file' = Some(file)
    /\ Enter(Decode(file), "script")
    /\ shown' = Nothing
    /\ prev' = None

\* Lines 86-88: the user takes the file out of the uploader; the script
\* runs with uploaded_file None and does nothing past line 88.  Only the
\* cached Reader survives.
Remove ==
    /\ pc = "idle"
    /\ uploaded_file # None
    /\ uploaded_file' = None
    /\ img_array' = None
    /\ how' = "none"
    /\ input' = None
    /\ gray' = None /\ contours' = <<>> /\ location' = None /\ approx' = None
    /\ mask' = {} /\ cropped_image' = None /\ result' = <<>> /\ text' = None
    /\ ocrCalls' = 0
    /\ exit' = "none"
    /\ ret' = <<>>
    /\ shown' = Nothing
    /\ prev' = None
    /\ UNCHANGED <<pc, reader>>

\* Streamlit runs the script again with the same file in the widget.
Rerun ==
    /\ pc = "idle"
    /\ uploaded_file # None
    /\ how = "script"
    /\ Enter(Decode(uploaded_file[1]), "script")
    /\ shown' = Nothing
    /\ prev' = Some(Summary)
    /\ UNCHANGED uploaded_file

\* process_image called once more on the buffer the script's call left
\* behind.
CallAgain ==
    /\ pc = "idle"
    /\ how = "script"
    /\ Enter(img_array[1], "direct")
    /\ prev' = Some(Summary)
    /\ UNCHANGED <<uploaded_file, shown>>

\* Lines 29-55.
Locate ==
    /\ pc = "locate"
    /\ \E raw \in FindContours(img_array[1]) :
         LET found == Locator(raw)
         IN /\ gray' = Some(CvtGray(img_array[1]))
            /\ contours' = raw
            /\ location' = found.location
            /\ approx' = found.approx
            /\ IF found.location = None
               THEN /\ ret' = PlateNotFound
                    /\ exit' = "PlateNotFound"
                    /\ pc' = "returned"
               ELSE /\ pc' = "crop"
                    /\ UNCHANGED <<ret, exit>>
    /\ UNCHANGED <<uploaded_file, img_array, how, reader, input, mask,
                   cropped_image, result, text, ocrCalls, shown, prev>>

\* Lines 58-65.  np.min of an empty index array raises ValueError.  The
\* bitwise_and of line 60 has its result discarded.
MaskAndCrop ==
    /\ pc = "crop"
    /\ mask' = DrawContours(img_array[1], location)
    /\ IF mask' = {}
       THEN /\ exit' = "ValueError"
            /\ pc' = "raised"
            /\ UNCHANGED cropped_image
       ELSE /\ cropped_image' = Some(Crop(gray[1], mask'))
            /\ pc' = "ocr"
            /\ UNCHANGED exit
    /\ UNCHANGED <<uploaded_file, img_array, how, reader, input, gray, contours,
                   location, approx, result, text, ocrCalls, ret, shown, prev>>

\* Lines 68-72.
ReadText ==
    /\ pc = "ocr"
    /\ \E r \in Readtext(cropped_image[1]) :
         /\ result' = r
         /\ ocrCalls' = ocrCalls + 1
         /\ IF IsEmpty(r)
            THEN /\ ret' = TextNotFound
                 /\ exit' = "TextNotFound"
                 /\ pc' = "returned"
            ELSE /\ pc' = "annotate"
                 /\ UNCHANGED <<ret, exit>>
    /\ UNCHANGED <<uploaded_file, img_array, how, reader, input, gray, contours,
                   location, approx, mask, cropped_image, text, shown, prev>>

\* Lines 74-83.
Annotate ==
    /\ pc = "annotate"
    /\ LET t == FirstText(result)
           drawn == Rectangle(PutText(img_array[1], t, TextOrg(approx)),
                              RectCorners(approx))
       IN /\ text' = Some(t)
          /\ img_array' = Some(drawn)
          /\ ret' = <<Some(drawn), Some(t), cropped_image>>
    /\ exit' = "Success"
    /\ pc' = "returned"
    /\ UNCHANGED <<uploaded_file, how, reader, input, gray, contours, location,
                   approx, mask, cropped_image, result, ocrCalls, shown, prev>>

\* Lines 100-115.  An exception out of process_image ends the script run
\* before either branch; Streamlit shows the exception instead.
Display ==
    /\ pc \in {"returned", "raised"}
    /\ how = "script"
    /\ shown' = IF pc = "raised" THEN [Nothing EXCEPT !.kind = "exception"]
                ELSE IF Truthy(ret[2])
                     THEN [kind |-> "success", text |-> ret[2],
                           image |-> ret[1], crop |-> ret[3]]
                     ELSE [Nothing EXCEPT !.kind = "error"]
    /\ pc' = "idle"
    /\ UNCHANGED <<uploaded_file, img_array, how, reader, input, locals,
                   ocrCalls, exit, ret, prev>>

\* The direct call hands its result (or its exception) back to its caller.
ReturnToCaller ==
    /\ pc \in {"returned", "raised"}
    /\ how = "direct"
    /\ pc' = "idle"
    /\ UNCHANGED <<uploaded_file, img_array, how, reader, input, locals,
                   ocrCalls, exit, ret, shown, prev>>

Next ==
    \/ \E file \in Files : Upload(file)
    \/ Remove
    \/ Rerun
    \/ CallAgain
    \/ Locate
    \/ MaskAndCrop
    \/ ReadText
    \/ Annotate
    \/ Display
    \/ ReturnToCaller

Spec == Init /\ [][Next]_vars

(* ------------------------ vocabulary of the claims -------------------- *)
\* Contour j is ranked before contour i: larger area, or the same area and
\* earlier in the raw list.
RankedBefore(raw, j, i) ==
    \/ raw[j].area > raw[i].area
    \/ raw[j].area = raw[i].area /\ j < i

RankOf(raw, i) == 1 + Cardinality({j \in DOMAIN raw : RankedBefore(raw, j, i)})

IsQuad(c) == Len(c.approx) = 4

NoQuadAmongTop(raw) ==
    \A i \in DOMAIN raw : RankOf(raw, i) <= 10 => ~IsQuad(raw[i])

\* The locator of the current invocation has run.
Located == how # "none" /\ pc # "locate"

\* The current invocation has ended (returned or raised).
Ended == how # "none" /\ pc \in {"returned", "raised", "idle"}

\* readtext has answered in the current invocation.
OcrAnswered == how # "none" /\ ocrCalls > 0

AllAbsent == <<None, None, None>>

\* What the current invocation has drawn on the buffer.
Drawn ==
    SubSeq(img_array[1].marks, Len(input[1].marks) + 1, Len(img_array[1].marks))

DrawnOf(k) == {i \in DOMAIN Drawn : Drawn[i].kind = k}

\* The script has displayed the outcome of its run.
Displayed == how = "script" /\ pc = "idle"

(* -------------------------------- claims ------------------------------ *)
\* C1: when none of the 10 largest-area contours approximates to 4
\* vertices, the invocation returns (None, None, None) and readtext is not
\* called at any point of it.
C1_NoQuadNoOcr ==
    (Located /\ NoQuadAmongTop(contours)) =>
        /\ pc \in {"returned", "idle"}
        /\ ret = AllAbsent
        /\ ocrCalls = 0

\* A quadrilateral ranked 11th, none among the first ten.
C1_Witness ==
    /\ pc = "returned"
    /\ NoQuadAmongTop(contours)
    /\ \E i \in DOMAIN contours : IsQuad(contours[i]) /\ RankOf(contours, i) = 11

\* C2: a polygon was found and readtext answered with an empty sequence:
\* all three results are absent.
C2_EmptyOcrAllAbsent ==
    (OcrAnswered /\ location # None /\ result = <<>>) =>
        /\ pc \in {"returned", "idle"}
        /\ ret = AllAbsent

C2_Witness ==
    /\ pc = "returned"
    /\ ocrCalls = 1
    /\ result = <<>>
    /\ cropped_image # None
    /\ location = PlateQuad

\* C3: readtext answered with a non-empty sequence: the returned text is
\* the first entry's text field, and the one string drawn on the image is
\* that string.
C3_FirstEntryText ==
    (OcrAnswered /\ result # <<>> /\ Ended) =>
        /\ ret[2] = Some(result[1][2])
        /\ Cardinality(DrawnOf("text")) = 1
        /\ \A i \in DrawnOf("text") : Drawn[i].text = result[1][2]

C3_Witness ==
    /\ pc = "returned"
    /\ Len(result) = 2
    /\ result[1][2] = "ABC123"
    /\ result[2][2] # result[1][2]
    /\ ret[2] = Some("ABC123")

\* C4 as stated: a second invocation on the same input image ends as the
\* first did and returns what the first returned.
C4_SameImageSameOutput ==
    (prev # None /\ Ended) => (exit = prev[1].exit /\ ret = prev[1].ret)

\* C4 amended: the second invocation repeats the first when it is given its
\* own decoded copy of the image (a script run), or when the first left the
\* buffer as it was (it took a failure exit or raised).
C4_FreshCopySameOutput ==
    (prev # None /\ Ended /\ (how = "script" \/ prev[1].exit # "Success")) =>
        (exit = prev[1].exit /\ ret = prev[1].ret)

C4_Witness ==
    /\ prev # None
    /\ how = "script"
    /\ pc = "returned"
    /\ exit = "Success"
    /\ ret = prev[1].ret

\* C5 as stated: a polygon was selected and the filled mask has no
\* foreground pixel: the invocation returns (None, None, None) and does not
\* raise.
C5_EmptyMaskIsPlateNotFound ==
    (Located /\ pc # "crop" /\ location # None /\ mask = {}) =>
        (pc # "raised" /\ ret = AllAbsent)

\* C6 as stated: the script shows 'not found' exactly when the pipeline took
\* one of its two failure exits, and shows the success outcome (first
\* entry's text, annotated image, crop) whenever readtext answered with a
\* non-empty sequence.
C6_NotFoundIffFailureExit ==
    Displayed =>
        /\ shown.kind = "error" <=> exit \in {"PlateNotFound", "TextNotFound"}
        /\ (ocrCalls > 0 /\ result # <<>>) =>
               shown = [kind |-> "success", text |-> Some(result[1][2]),
                        image |-> img_array, crop |-> cropped_image]

\* C6 amended: 'not found' is shown exactly when the pipeline took a failure
\* exit or the first entry's text is the empty string; the success outcome
\* is shown whenever readtext answered with a non-empty sequence whose first
\* text is not empty.
C6_NotFoundIffNoText ==
    Displayed =>
        /\ shown.kind = "error" <=>
               \/ exit \in {"PlateNotFound", "TextNotFound"}
               \/ exit = "Success" /\ result[1][2] = ""
        /\ (ocrCalls > 0 /\ result # <<>> /\ result[1][2] # "") =>
               shown = [kind |-> "success", text |-> Some(result[1][2]),
                        image |-> img_array, crop |-> cropped_image]

C6_Witness ==
    /\ Displayed
    /\ exit = "Success"
    /\ result[1][2] = ""
    /\ shown.kind = "error"

\* C7: the returned crop is the grayscale image restricted to the rows and
\* columns between the least and greatest row and column of the mask's
\* foreground pixels, both ends included; for the axis-aligned polygon that
\* covers the whole image it is the whole grayscale image.
C7_CropIsMaskBox ==
    (how # "none" /\ cropped_image # None) =>
        /\ cropped_image[1] =
               [src |-> gray[1].src,
                r0 |-> SetMin({px[1] : px \in mask}),
                r1 |-> SetMax({px[1] : px \in mask}),
                c0 |-> SetMin({px[2] : px \in mask}),
                c1 |-> SetMax({px[2] : px \in mask})]
        /\ location = FullQuad => cropped_image = gray
        /\ exit = "Success" => ret[3] = cropped_image

C7_Witness ==
    /\ pc = "returned"
    /\ exit = "Success"
    /\ location = FullQuad
    /\ ret[3] = gray

\* C8 as stated: on success the text is anchored at the selected polygon's
\* second vertex, 60 pixels away vertically, and the rectangle's corners are
\* the polygon's vertices 0 and 2.
C8_TextAtSecondVertex ==
    (Ended /\ exit = "Success") =>
        /\ \A i \in DrawnOf("text") :
               /\ Drawn[i].at[1][1] = location[2][1]
               /\ Drawn[i].at[1][2] \in {location[2][2] - 60, location[2][2] + 60}
        /\ \A i \in DrawnOf("rect") : Drawn[i].at = <<location[1], location[3]>>

\* C8 amended: on success the text is anchored at the column of the selected
\* polygon's first vertex and at the row of its second vertex plus 60 (60
\* pixels further down the image), and the rectangle's corners are the
\* polygon's vertices 0 and 2; one text and one rectangle are drawn.
C8_TextAtFirstColumnSecondRow ==
    (Ended /\ exit = "Success") =>
        /\ Cardinality(DrawnOf("text")) = 1 /\ Cardinality(DrawnOf("rect")) = 1
        /\ \A i \in DrawnOf("text") :
               Drawn[i].at = <<<<location[1][1], location[2][2] + 60>>>>
        /\ \A i \in DrawnOf("rect") : Drawn[i].at = <<location[1], location[3]>>

C8_Witness ==
    /\ pc = "returned"
    /\ exit = "Success"
    /\ location[1][1] # location[2][1]
    /\ Len(Drawn) = 2

\* C9: the selected polygon is the approximation of a contour among the 10
\* largest by area that has 4 vertices and has no 4-vertex contour ranked
\* before it; nothing is selected when the first ten hold no such contour.
C9_FirstQuadOfTopTen ==
    Located =>
        IF location = None THEN NoQuadAmongTop(contours)
        ELSE \E i \in DOMAIN contours :
                 /\ RankOf(contours, i) <= 10
                 /\ IsQuad(contours[i])
                 /\ location = contours[i].approx
                 /\ \A j \in DOMAIN contours :
                        RankedBefore(contours, j, i) => ~IsQuad(contours[j])

\* Two different quadrilaterals among the first ten, the selected one later
\* in the raw list than the other.
C9_Witness ==
    /\ pc = "crop"
    /\ \E i, j \in DOMAIN contours :
           /\ j < i
           /\ IsQuad(contours[i]) /\ IsQuad(contours[j])
           /\ contours[i].approx # contours[j].approx
           /\ RankedBefore(contours, i, j)
           /\ RankOf(contours, j) <= 10
           /\ location = contours[i].approx

\* C10: within an invocation the buffer changes only in the Annotate step,
\* after the single readtext call answered with a non-empty sequence; an
\* invocation that takes a failure exit leaves the buffer as it received it
\* and returns three absent results; readtext is called at most once.
C10_OnlyAnnotateWrites ==
    [][/\ (pc # "idle" /\ img_array' # img_array) =>
              (pc = "annotate" /\ ocrCalls = 1 /\ result # <<>>)
       /\ (pc' = "returned" /\ exit' \in {"PlateNotFound", "TextNotFound"}) =>
              (img_array' = input' /\ ret' = AllAbsent)
       /\ ocrCalls' <= 1]_vars

C10_Witness ==
    /\ pc = "returned"
    /\ exit = "Success"
    /\ img_array # input
    /\ ocrCalls = 1

====
